---- MODULE Spec2Model ----
(***************************************************************************)
(* Model of the transaction-analysis pipeline of eth-wallet-tracker:       *)
(* parse_etherscan_transactions -> group_transactions_by_wallet ->         *)
(* analyze_wallet_transactions (per wallet) -> ranking, as driven by       *)
(* analyze_token_interactions (main.py).                                   *)
(*                                                                         *)
(* Representation.                                                         *)
(*  - A Python str holding an address is a sequence of one-character       *)
(*    strings, so that lower(), startswith(), the 40-hex-digit test and    *)
(*    the pattern heuristics are computed character by character.          *)
(*  - A Decimal is a record [c |-> coefficient, e |-> number of fractional *)
(*    digits]; its value is c / 10^e and str() prints exactly e digits     *)
(*    after the point (e = 0 prints none).                                 *)
(*  - A WalletTransaction is an object: a position of the sequence `heap`. *)
(*    Lists hold references (positions), so aliasing is observable.        *)
(*  - A raw row field that Python converts with int()/Decimal() is a       *)
(*    record [k |-> "num", n |-> value] for a numeric string and           *)
(*    [k |-> "str", n |-> 0] for a non-numeric one.                        *)
(***************************************************************************)
EXTENDS Integers, Sequences, FiniteSets, TLC

(* ---------------------------------------------------------------------- *)
(* Bounds of the model                                                     *)
(* ---------------------------------------------------------------------- *)
\* longest list of raw rows handed to the pipeline
MaxRows == 3
\* largest value of config.max_early_wallets tried
MaxEarly == 2

(* ---------------------------------------------------------------------- *)
(* Strings as character sequences                                          *)
(* ---------------------------------------------------------------------- *)
Rep(ch, n) == [i \in 1..n |-> ch]

HexLower == {"0","1","2","3","4","5","6","7","8","9","a","b","c","d","e","f"}
HexUpper == {"A","B","C","D","E","F"}

\* str.lower() on one character
LowerChar(ch) ==
  CASE ch = "A" -> "a" [] ch = "B" -> "b" [] ch = "C" -> "c"
    [] ch = "D" -> "d" [] ch = "E" -> "e" [] ch = "F" -> "f"
    [] ch = "X" -> "x" [] OTHER -> ch

\* str.lower()
Lower(s) == [i \in 1..Len(s) |-> LowerChar(s[i])]

\* s.startswith(p)
StartsWith(s, p) == Len(s) >= Len(p) /\ SubSeq(s, 1, Len(p)) = p

\* s.endswith(p)
EndsWith(s, p) == Len(s) >= Len(p) /\ SubSeq(s, Len(s) - Len(p) + 1, Len(s)) = p

Prefix0x == <<"0","x">>

(* ---------------------------------------------------------------------- *)
(* Address utilities (utils.py)                                            *)
(* ---------------------------------------------------------------------- *)
\* is_valid_ethereum_address: optional 0x prefix, then exactly 40 hex digits
is_valid_ethereum_address(address) ==
  IF address = <<>> THEN FALSE
  ELSE LET body == IF StartsWith(address, Prefix0x)
                   THEN SubSeq(address, 3, Len(address)) ELSE address
       IN  Len(body) = 40 /\ \A i \in 1..Len(body) : body[i] \in HexLower \cup HexUpper

\* prepends 0x whether or not the prefix is there
PrefixAlwaysAdded(address) ==
  IF address = <<>> THEN <<>> ELSE Prefix0x \o Lower(address)

\* normalize_address: lowercase, then ensure the 0x prefix; "" stays ""
normalize_address(address) ==
  IF address = <<>> THEN <<>>
  ELSE LET low == Lower(address)
       IN  IF StartsWith(low, Prefix0x) THEN low ELSE Prefix0x \o low

special_addresses ==
  { Prefix0x \o Rep("0", 40),
    Prefix0x \o Rep("0", 36) \o <<"d","e","a","d">> }
  \cup { Prefix0x \o Rep("0", 39) \o <<d>> : d \in {"1","2","3","4","5","6","7","8","9"} }

known_contracts ==
  { <<"0","x","7","a","2","5","0","d","5","6","3","0","b","4","c","f","5","3","9","7","3","9","d","f","2","c","5","d","a","c","b","4","c","6","5","9","f","2","4","8","8","d">>,
    <<"0","x","6","8","b","3","4","6","5","8","3","3","f","b","7","2","a","7","0","e","c","d","f","4","8","5","e","0","e","4","c","7","b","d","8","6","6","5","f","c","4","5">>,
    <<"0","x","e","5","9","2","4","2","7","a","0","a","e","c","e","9","2","d","e","3","e","d","e","e","1","f","1","8","e","0","1","5","7","c","0","5","8","6","1","5","6","4">>,
    <<"0","x","3","f","c","9","1","a","3","a","f","d","7","0","3","9","5","c","d","4","9","6","c","6","4","7","d","5","a","6","c","c","9","d","4","b","2","b","7","f","a","d">>,
    <<"0","x","1","1","1","1","1","1","1","2","5","4","e","e","b","2","5","4","7","7","b","6","8","f","b","8","5","e","d","9","2","9","f","7","3","a","9","6","0","5","8","2">>,
    <<"0","x","1","1","1","1","1","2","5","4","3","6","9","7","9","2","b","2","c","a","5","d","0","8","4","a","b","5","e","e","a","3","9","7","c","a","8","f","a","4","8","b">>,
    <<"0","x","d","e","f","1","c","0","d","e","d","9","b","e","c","7","f","1","a","1","6","7","0","8","1","9","8","3","3","2","4","0","f","0","2","7","b","2","5","e","f","f">>,
    <<"0","x","8","8","1","d","4","0","2","3","7","6","5","9","c","2","5","1","8","1","1","c","e","c","9","c","3","6","4","e","f","9","1","d","c","0","8","d","3","0","0","c">>,
    <<"0","x","6","b","1","7","5","4","7","4","e","8","9","0","9","4","c","4","4","d","a","9","8","b","9","5","4","e","e","d","e","a","c","4","9","5","2","7","1","d","0","f">>,
    <<"0","x","a","0","b","8","6","a","3","3","e","6","4","4","1","e","3","c","6","c","d","e","a","f","9","b","f","4","6","4","c","4","4","c","7","8","a","1","f","0","e","9">>,
    <<"0","x","3","f","5","c","e","5","f","b","f","e","3","e","9","a","f","3","9","7","1","d","d","8","3","3","d","2","6","b","a","9","b","5","c","9","3","6","f","0","b","e">>,
    <<"0","x","d","5","5","1","2","3","4","a","e","4","2","1","e","3","b","c","b","a","9","9","a","0","d","a","6","d","7","3","6","0","7","4","f","2","2","1","9","2","f","f">>,
    <<"0","x","5","6","4","2","8","6","3","6","2","0","9","2","d","8","e","7","9","3","6","f","0","5","4","9","5","7","1","a","8","0","3","b","2","0","3","a","a","c","e","d">>,
    <<"0","x","c","0","2","a","a","a","3","9","b","2","2","3","f","e","8","d","0","a","0","e","5","c","4","f","2","7","e","a","d","9","0","8","3","c","7","5","6","c","c","2">>,
    <<"0","x","1","e","0","0","4","9","7","8","3","f","0","0","8","a","0","0","8","5","1","9","3","e","0","0","0","0","3","d","0","0","c","d","5","4","0","0","3","c","7","1">>,
    <<"0","x","0","0","0","0","0","0","0","0","0","0","6","c","3","8","5","2","c","b","e","f","3","e","0","8","e","8","d","f","2","8","9","1","6","9","e","d","e","5","8","1">> }


\* is_likely_contract: listed addresses, then the three pattern heuristics
is_likely_contract(addr) ==
  LET address == normalize_address(addr)
  IN  IF address = <<>> \/ ~is_valid_ethereum_address(address) THEN FALSE
      ELSE IF address \in special_addresses THEN TRUE
      ELSE IF address \in known_contracts THEN TRUE
      ELSE LET address_no_prefix == IF StartsWith(address, Prefix0x)
                                    THEN SubSeq(address, 3, Len(address)) ELSE address
           IN  IF Cardinality({address_no_prefix[i] : i \in 1..Len(address_no_prefix)}) <= 4
               THEN TRUE
               ELSE IF EndsWith(address_no_prefix, Rep("0", 5)) THEN TRUE
               ELSE IF StartsWith(address_no_prefix, Rep("0", 5)) THEN TRUE
               ELSE FALSE

(* ---------------------------------------------------------------------- *)
(* Addresses used as inputs                                                *)
(* ---------------------------------------------------------------------- *)

\* an externally owned account: not listed, no pattern
AddrA == <<"0","x","1","2","3","4","5","6","7","8","9","0","a","b","c","d","e","f","1","2","3","4","5","6","7","8","9","0","a","b","c","d","e","f","1","2","3","4","5","6","7","8">>

\* an externally owned account
AddrB == <<"0","x","a","b","c","d","e","f","1","2","3","4","5","6","7","8","9","0","a","b","c","d","e","f","1","2","3","4","5","6","7","8","9","0","a","b","c","d","e","f","1","2">>

\* an externally owned account
AddrC == <<"0","x","9","f","8","e","7","d","6","c","5","b","4","a","3","9","2","8","1","7","0","6","f","5","e","4","d","3","c","2","b","1","a","0","9","8","7","6","5","4","3","2">>

\* the Uniswap V2 router, a listed DEX address
Router == <<"0","x","7","a","2","5","0","d","5","6","3","0","b","4","c","f","5","3","9","7","3","9","d","f","2","c","5","d","a","c","b","4","c","6","5","9","f","2","4","8","8","d">>

\* the same router as the API may spell it: upper case, no prefix
RouterUpper == <<"7","A","2","5","0","D","5","6","3","0","B","4","C","F","5","3","9","7","3","9","D","F","2","C","5","D","A","C","B","4","C","6","5","9","F","2","4","8","8","D">>

\* too short to be an address
AddrShort == <<"0","x","1","2","3","4">>


(* ---------------------------------------------------------------------- *)
(* Python values                                                           *)
(* ---------------------------------------------------------------------- *)
NoneVal == [k |-> "none", n |-> 0]
\* a numeric string such as "21000"
Num(v) == [k |-> "num", n |-> v]
\* a non-empty string that is not a number, such as "abc"
NotANumber == [k |-> "str", n |-> 0]
\* a numeric string too long to be written out: m followed by z zeros,
\* such as "20000000000" = NumZ(2, 10)
NumZ(m, z) == [k |-> "numz", n |-> m, z |-> z]
\* an int object
IntObj(v) == [k |-> "int", n |-> v]

\* int(x) of a raw field: the value, or the exception it raises
IntOf(x) ==
  IF x.k = "num" THEN [exc |-> "", v |-> x.n]
  ELSE IF x.k = "none" THEN [exc |-> "TypeError", v |-> 0]
  ELSE [exc |-> "ValueError", v |-> 0]

(* ---------------------------------------------------------------------- *)
(* Decimal                                                                 *)
(* ---------------------------------------------------------------------- *)
Pow10(n) == IF n = 0 THEN 1 ELSE IF n = 1 THEN 10 ELSE IF n = 2 THEN 100
  ELSE IF n = 3 THEN 1000 ELSE IF n = 4 THEN 10000 ELSE IF n = 5 THEN 100000
  ELSE IF n = 6 THEN 1000000 ELSE IF n = 7 THEN 10000000
  ELSE IF n = 8 THEN 100000000 ELSE 1000000000

Dec(c, e) == [c |-> c, e |-> e]
DecZero == Dec(0, 0)

MaxOf(a, b) == IF a >= b THEN a ELSE b

\* the coefficient of d when written with e fractional digits (e >= d.e)
Scaled(d, e) == d.c * Pow10(e - d.e)

\* a + b: the result carries the larger number of fractional digits
DecAdd(a, b) ==
  LET e == MaxOf(a.e, b.e) IN Dec(Scaled(a, e) + Scaled(b, e), e)

DecSub(a, b) ==
  LET e == MaxOf(a.e, b.e) IN Dec(Scaled(a, e) - Scaled(b, e), e)

DecLt(a, b) == LET e == MaxOf(a.e, b.e) IN Scaled(a, e) < Scaled(b, e)
DecEq(a, b) == LET e == MaxOf(a.e, b.e) IN Scaled(a, e) = Scaled(b, e)

\* Decimal(x) of a raw field: the value, or the exception it raises.
\* decimal.InvalidOperation derives from ArithmeticError only: it is neither
\* a ValueError nor a TypeError.
DecimalOf(x) ==
  IF x.k = "num" THEN [exc |-> "", v |-> Dec(x.n, 0)]
  ELSE IF x.k = "numz" THEN [exc |-> "", v |-> Dec(x.n, -x.z)]
  ELSE IF x.k = "none" THEN [exc |-> "TypeError", v |-> DecZero]
  ELSE [exc |-> "InvalidOperation", v |-> DecZero]

\* integer division rounding toward zero (ROUND_DOWN)
TruncDiv(a, b) == IF a >= 0 THEN a \div b ELSE -((-a) \div b)

\* format_token_amount: amount / 10^decimals cut to 6 fractional digits
format_token_amount(amount, decimals) ==
  IF decimals = 0 THEN amount
  ELSE IF decimals <= 6 - amount.e
       THEN Dec(amount.c * Pow10(6 - amount.e - decimals), 6)
       ELSE Dec(TruncDiv(amount.c, Pow10(decimals + amount.e - 6)), 6)

(* A float is kept as the Decimal that str() prints for it (s) together    *)
(* with the sign (d) of the difference between the exact binary value and  *)
(* that Decimal: 0.1 is stored as slightly more than 1/10, so d = 1.       *)
Float(c, e, d) == [s |-> Dec(c, e), d |-> d]

\* Decimal(str(x)) for a float x
DecimalOfStr(x) == x.s

\* Decimal >= float: Python compares the exact values
DecGeFloat(a, x) == DecLt(x.s, a) \/ (DecEq(a, x.s) /\ x.d <= 0)

(* ---------------------------------------------------------------------- *)
(* is_round_number (utils.py)                                              *)
(* ---------------------------------------------------------------------- *)
common_amounts ==
  { 100, 200, 500, 1000, 2000, 5000, 10000, 20000, 25000,
    50000, 100000, 200000, 500000, 1000000, 2000000, 5000000,
    10000000, 50000000, 100000000, 500000000, 1000000000 }

\* The common amounts c for which the double nearest to c + 0.001 (and to
\* c - 0.001) lies less than the double 0.001 away from c, so that
\* abs(amount_float - c) < 0.001 holds at a distance of exactly 0.001.
float_edge_amounts == { 500, 1000, 2000, 50000, 200000, 500000, 2000000, 500000000 }

\* abs(float(amount) - common) < 0.001 for some common amount
NearCommon(amount) ==
  IF amount.e = 0 THEN amount.c \in common_amounts
  ELSE LET unit == Pow10(amount.e)
           q == amount.c \div unit
           r == (amount.c % unit) * Pow10(6 - amount.e)
       IN  \/ q \in common_amounts /\ r < 1000
           \/ q \in float_edge_amounts /\ r = 1000
           \/ (q + 1) \in common_amounts /\ r > 999000
           \/ (q + 1) \in float_edge_amounts /\ r = 999000

\* abs(log10(v) - round(log10(v))) < 0.001 for the integer v: the integers
\* between 10^j * 10^-0.001 and 10^j * 10^0.001
LogWindow ==
  { <<1, 1>>, <<10, 10>>, <<100, 100>>, <<998, 1002>>, <<9978, 10023>>,
    <<99771, 100230>>, <<997701, 1002305>>, <<9977001, 10023052>>,
    <<99770007, 100230523>>, <<997700064, 1002305238>> }

\* the same test for amount = c / 10^e is the test for c: log10 shifts by e
NearPowerOfTen(amount) == \E w \in LogWindow : w[1] <= amount.c /\ amount.c <= w[2]

\* asks for six zeros at the end
EndsWithSixZeros(amount) ==
  (amount.e = 0 \/ amount.e >= 6) /\ amount.c % 1000000 = 0

\* str(amount).endswith('00000'): the last five characters are digits of the
\* coefficient unless the decimal point falls among them
EndsWithZeros(amount) ==
  (amount.e = 0 \/ amount.e >= 5) /\ amount.c % 100000 = 0

\* str(amount).endswith('9999')
EndsWithNines(amount) ==
  (amount.e = 0 \/ amount.e >= 4) /\ amount.c % 10000 = 9999

is_round_number(amount) ==
  IF amount.c <= 0 THEN FALSE
  ELSE IF EndsWithZeros(amount) THEN TRUE
  ELSE IF NearCommon(amount) THEN TRUE
  ELSE IF NearPowerOfTen(amount) THEN TRUE
  ELSE IF EndsWithNines(amount) THEN TRUE
  ELSE FALSE

(* ---------------------------------------------------------------------- *)
(* Records (models.py)                                                     *)
(* ---------------------------------------------------------------------- *)
\* stores the two counterparty addresses in each other's field
WalletTransactionSwapped(wallet_address, tx_hash, block_number, timestamp, token_amount, token_amount_raw, direction, from_address, to_address, gas_used, gas_price) ==
  [ wallet_address |-> wallet_address, tx_hash |-> tx_hash,
    block_number |-> block_number, timestamp |-> timestamp,
    token_amount |-> token_amount, token_amount_raw |-> token_amount_raw,
    direction |-> direction, from_address |-> to_address,
    to_address |-> from_address, gas_used |-> gas_used, gas_price |-> gas_price ]

WalletTransaction(wallet_address, tx_hash, block_number, timestamp, token_amount, token_amount_raw, direction, from_address, to_address, gas_used, gas_price) ==
  [ wallet_address |-> wallet_address, tx_hash |-> tx_hash,
    block_number |-> block_number, timestamp |-> timestamp,
    token_amount |-> token_amount, token_amount_raw |-> token_amount_raw,
    direction |-> direction, from_address |-> from_address,
    to_address |-> to_address, gas_used |-> gas_used, gas_price |-> gas_price ]

WalletAnalysis(wallet_address, first_transaction, total_received, total_sent, net_position, transaction_count, is_likely_buyer, is_likely_airdrop) ==
  [ wallet_address |-> wallet_address, first_transaction |-> first_transaction,
    total_received |-> total_received, total_sent |-> total_sent,
    net_position |-> net_position, transaction_count |-> transaction_count,
    estimated_eth_cost |-> NoneVal, estimated_usd_value |-> NoneVal,
    is_likely_buyer |-> is_likely_buyer, is_likely_airdrop |-> is_likely_airdrop ]

TokenAnalysis(total_transactions, unique_wallets, earliest_wallets) ==
  [ total_transactions |-> total_transactions, unique_wallets |-> unique_wallets,
    earliest_wallets |-> earliest_wallets ]

Config(max_early_wallets, min_token_amount) ==
  [ max_early_wallets |-> max_early_wallets, min_token_amount |-> min_token_amount ]

(* ---------------------------------------------------------------------- *)
(* parse_etherscan_transactions (utils.py)                                 *)
(* ---------------------------------------------------------------------- *)
\* a raw row: the fields named in `absent` are missing from the mapping
RawRow(timeStamp, value, hash, blockNumber, from, to, gasUsed, gasPrice, absent) ==
  [ timeStamp |-> timeStamp, value |-> value, hash |-> hash,
    blockNumber |-> blockNumber, from |-> from, to |-> to,
    gasUsed |-> gasUsed, gasPrice |-> gasPrice, absent |-> absent ]

required_fields == {"timeStamp", "value", "hash", "blockNumber", "from", "to"}

\* tx.get(field) for the two optional fields
GetGasUsed(tx) == IF "gasUsed" \in tx.absent THEN NoneVal ELSE tx.gasUsed
GetGasPrice(tx) == IF "gasPrice" \in tx.absent THEN NoneVal ELSE tx.gasPrice

\* truth value of an optional string (non-empty here) or integer
Truthy(x) == x.k \in {"num", "numz", "str"} \/ (x.k = "int" /\ x.n # 0)

\* the exceptions the row handler of the parser catches (utils.py:121)
parse_caught == {"ValueError", "KeyError", "TypeError", "OverflowError"}

Skipped == [kind |-> "skip", exc |-> "", rec |-> NoneVal]
Raises(exc) == [kind |-> "exc", exc |-> exc, rec |-> NoneVal]

\* the body of the loop for one row, statements in source order
ParseRow(tx, decimals) ==
  IF required_fields \cap tx.absent # {} THEN Skipped
  ELSE LET timestamp == IntOf(tx.timeStamp)
           amount == DecimalOf(tx.value)
           from_addr == normalize_address(tx.from)
           to_addr == normalize_address(tx.to)
           block_number == IntOf(tx.blockNumber)
           gas_raw == GetGasUsed(tx)
           gas_used == IF Truthy(gas_raw) THEN IntOf(gas_raw) ELSE [exc |-> "", v |-> 0]
       IN  IF timestamp.exc # "" THEN Raises(timestamp.exc)
           ELSE IF amount.exc # "" THEN Raises(amount.exc)
           ELSE IF ~is_valid_ethereum_address(from_addr)
                   \/ ~is_valid_ethereum_address(to_addr) THEN Skipped
           ELSE IF block_number.exc # "" THEN Raises(block_number.exc)
           ELSE IF gas_used.exc # "" THEN Raises(gas_used.exc)
           ELSE [ kind |-> "ok", exc |-> "",
                  rec |-> WalletTransaction(
                            to_addr, tx.hash, block_number.v, timestamp.v,
                            format_token_amount(amount.v, decimals), tx.value,
                            "in", from_addr, to_addr,
                            IF Truthy(gas_raw) THEN [k |-> "int", n |-> gas_used.v]
                                               ELSE NoneVal,
                            GetGasPrice(tx)) ]

RECURSIVE ParseFrom(_, _, _, _)
ParseFrom(raw_transactions, i, decimals, acc) ==
  IF i > Len(raw_transactions) THEN [raised |-> "", out |-> acc]
  ELSE LET r == ParseRow(raw_transactions[i], decimals)
       IN  IF r.kind = "ok"
           THEN ParseFrom(raw_transactions, i + 1, decimals, Append(acc, r.rec))
           ELSE IF r.kind = "skip" \/ r.exc \in parse_caught
           THEN ParseFrom(raw_transactions, i + 1, decimals, acc)
           ELSE [raised |-> r.exc, out |-> acc]

\* the records parsed, or the exception that leaves the function
parse_etherscan_transactions(raw_transactions, decimals) ==
  IF raw_transactions = <<>> THEN [raised |-> "", out |-> <<>>]
  ELSE ParseFrom(raw_transactions, 1, decimals, <<>>)

(* ---------------------------------------------------------------------- *)
(* group_transactions_by_wallet (utils.py)                                 *)
(* ---------------------------------------------------------------------- *)
\* The heap h is the sequence of the WalletTransaction objects allocated so
\* far; a reference is a position of h.

\* write record rec at reference ref, allocating it when ref is fresh
Store(h, ref, rec) ==
  IF ref = Len(h) + 1 THEN Append(h, rec) ELSE [h EXCEPT ![ref] = rec]

\* keeps the original reference instead of copying
AliasedReference(h, ref) == ref

\* copy.deepcopy(tx): the reference of a new object
DeepCopyReference(h, ref) == Len(h) + 1

\* always emits the sender's record
SenderAlwaysEmitted(tx) == TRUE

\* tests the recipient instead of the sender
SenderEmittedByRecipient(tx) == ~is_likely_contract(tx.to_address)

\* the sender gets an 'out' record unless it is a likely contract
SenderEmitted(tx) == ~is_likely_contract(tx.from_address)

\* the dict is a sequence of entries in insertion order
DictKeys(d) == {d[i].key : i \in 1..Len(d)}
DictIndex(d, key) == CHOOSE i \in 1..Len(d) : d[i].key = key

\* puts a new key in front of the keys already there
NewKeyInFront(d, key, ref) ==
  IF key \in DictKeys(d)
  THEN [d EXCEPT ![DictIndex(d, key)].txs = Append(@, ref)]
  ELSE <<[key |-> key, txs |-> <<ref>>]>> \o d

\* wallet_transactions[key].append(ref) on a defaultdict(list)
DictAppend(d, key, ref) ==
  IF key \in DictKeys(d)
  THEN [d EXCEPT ![DictIndex(d, key)].txs = Append(@, ref)]
  ELSE Append(d, [key |-> key, txs |-> <<ref>>])

\* one iteration of the loop over the parsed records
GroupOne(st, ref) ==
  LET tx == st.heap[ref]
      recipient_ref == DeepCopyReference(st.heap, ref)
      h1 == Store(st.heap, recipient_ref,
                  [tx EXCEPT !.wallet_address = tx.to_address, !.direction = "in"])
      d1 == DictAppend(st.dict, tx.to_address, recipient_ref)
      tx1 == h1[ref]
      sender_tx == WalletTransaction(
                     tx1.from_address, tx1.tx_hash, tx1.block_number, tx1.timestamp,
                     tx1.token_amount, tx1.token_amount_raw, "out",
                     tx1.from_address, tx1.to_address, tx1.gas_used, tx1.gas_price)
  IN  IF SenderEmitted(tx1)
      THEN [heap |-> Append(h1, sender_tx),
            dict |-> DictAppend(d1, tx1.from_address, Len(h1) + 1)]
      ELSE [heap |-> h1, dict |-> d1]

RECURSIVE GroupFrom(_, _, _)
GroupFrom(st, transactions, i) ==
  IF i > Len(transactions) THEN st
  ELSE GroupFrom(GroupOne(st, transactions[i]), transactions, i + 1)

group_transactions_by_wallet(h, transactions) ==
  GroupFrom([heap |-> h, dict |-> <<>>], transactions, 1)

(* ---------------------------------------------------------------------- *)
(* analyze_wallet_transactions (utils.py)                                  *)
(* ---------------------------------------------------------------------- *)
\* list.sort(key=...): a stable sort of the items by their keys
InsertByKey(sorted, p) ==
  LET n == Cardinality({j \in 1..Len(sorted) : sorted[j].k <= p.k})
  IN  SubSeq(sorted, 1, n) \o <<p>> \o SubSeq(sorted, n + 1, Len(sorted))

RECURSIVE SortPairs(_)
SortPairs(ps) ==
  IF ps = <<>> THEN <<>>
  ELSE InsertByKey(SortPairs(SubSeq(ps, 1, Len(ps) - 1)), ps[Len(ps)])

StableSort(items, keys) ==
  LET sorted == SortPairs([i \in 1..Len(items) |-> [k |-> keys[i], v |-> items[i]]])
  IN  [i \in 1..Len(items) |-> sorted[i].v]

\* leaves the list in arrival order
ListLeftUnsorted(h, refs) == refs

\* transactions.sort(key=lambda x: x.block_number)
SortTransactions(h, refs) ==
  StableSort(refs, [i \in 1..Len(refs) |-> h[refs[i]].block_number])

\* adds every amount to both totals
RECURSIVE SumIgnoringDirection(_, _, _, _)
SumIgnoringDirection(h, refs, direction_in, i) ==
  IF i > Len(refs) THEN DecZero
  ELSE DecAdd(h[refs[i]].token_amount, SumIgnoringDirection(h, refs, direction_in, i + 1))

RECURSIVE SumAmounts(_, _, _, _)
SumAmounts(h, refs, direction_in, i) ==
  IF i > Len(refs) THEN DecZero
  ELSE LET rest == SumAmounts(h, refs, direction_in, i + 1)
           tx == h[refs[i]]
       IN  IF (tx.direction = "in") = direction_in
           THEN DecAdd(tx.token_amount, rest) ELSE rest

\* leaves out the round-number condition
AirdropIgnoringAmount(h, transactions, total_received) ==
  /\ Len(transactions) = 1
  /\ h[transactions[1]].direction = "in"
  /\ is_likely_contract(h[transactions[1]].from_address)

IsLikelyAirdrop(h, transactions, total_received) ==
  /\ Len(transactions) = 1
  /\ h[transactions[1]].direction = "in"
  /\ is_likely_contract(h[transactions[1]].from_address)
  /\ is_round_number(total_received)

\* every wallet with receipts is a buyer
BuyerIfAnyReceipt(h, transactions, total_received, is_likely_airdrop) ==
  DecLt(DecZero, total_received)

\* leaves out the test for positive receipts
BuyerWithoutReceipts(h, transactions, total_received, is_likely_airdrop) ==
  /\ ~is_likely_airdrop
  /\ \/ ~is_round_number(total_received)
     \/ Len(transactions) > 1
     \/ (Len(transactions) = 1 /\ ~is_likely_contract(h[transactions[1]].from_address))

\* takes only amounts that are not round for purchases
BuyerOnlyIfNotRound(h, transactions, total_received, is_likely_airdrop) ==
  /\ ~is_likely_airdrop
  /\ DecLt(DecZero, total_received)
  /\ ~is_round_number(total_received)

IsLikelyBuyer(h, transactions, total_received, is_likely_airdrop) ==
  /\ ~is_likely_airdrop
  /\ DecLt(DecZero, total_received)
  /\ \/ ~is_round_number(total_received)
     \/ Len(transactions) > 1
     \/ (Len(transactions) = 1 /\ ~is_likely_contract(h[transactions[1]].from_address))

\* the result: the list as sorted in place, and the summary or None
analyze_wallet_transactions(h, wallet_address, refs, config) ==
  IF refs = <<>> THEN [txs |-> refs, ret |-> NoneVal]
  ELSE LET transactions == SortTransactions(h, refs)
           first_transaction == transactions[1]
           total_received == SumAmounts(h, transactions, TRUE, 1)
           total_sent == SumAmounts(h, transactions, FALSE, 1)
           net_position == DecSub(total_received, total_sent)
           is_likely_airdrop == IsLikelyAirdrop(h, transactions, total_received)
           is_likely_buyer ==
             IsLikelyBuyer(h, transactions, total_received, is_likely_airdrop)
       IN  IF DecLt(total_received, DecimalOfStr(config.min_token_amount))
           THEN [txs |-> transactions, ret |-> NoneVal]
           ELSE [txs |-> transactions,
                 ret |-> WalletAnalysis(wallet_address, first_transaction,
                           total_received, total_sent, net_position,
                           Len(transactions), is_likely_buyer, is_likely_airdrop)]

(* ---------------------------------------------------------------------- *)
(* estimate_transaction_cost_usd, wei_to_ether (utils.py)                  *)
(* ---------------------------------------------------------------------- *)
wei_caught == {"ValueError", "TypeError", "ZeroDivisionError"}
estimate_caught == {"ValueError", "TypeError", "OverflowError"}

\* wei_to_ether: wei / 10^18, Decimal('0') when a caught exception occurs
wei_to_ether(wei) ==
  LET d == DecimalOf(wei)
  IN  IF d.exc = "" THEN [exc |-> "", v |-> Dec(d.v.c, d.v.e + 18)]
      ELSE IF d.exc \in wei_caught THEN [exc |-> "", v |-> DecZero]
      ELSE [exc |-> d.exc, v |-> DecZero]

\* the cost (None when an input is missing), or the exception that escapes
estimate_transaction_cost_usd(gas_used, gas_price, eth_price_usd) ==
  IF ~Truthy(gas_used) \/ ~Truthy(gas_price) \/ eth_price_usd <= 0
  THEN [exc |-> "", v |-> NoneVal]
  ELSE LET gas_price_ether == wei_to_ether(gas_price)
       IN  IF gas_price_ether.exc = ""
           THEN [exc |-> "",
                 v |-> Dec(gas_price_ether.v.c * gas_used.n * eth_price_usd,
                           gas_price_ether.v.e)]
           ELSE IF gas_price_ether.exc \in estimate_caught
           THEN [exc |-> "", v |-> NoneVal]
           ELSE [exc |-> gas_price_ether.exc, v |-> NoneVal]

(* ---------------------------------------------------------------------- *)
(* Inputs                                                                  *)
(* ---------------------------------------------------------------------- *)
\* a likely airdrop: 1000.00 tokens (at 2 decimals) from the router
RowRouterToB ==
  RawRow(Num(1000), Num(100000), "h1", Num(100), Router, AddrB,
         Num(21000), Num(20), {})
\* a likely purchase: 837.42 tokens from an externally owned account,
\* at a lower block than the row above
RowAToC ==
  RawRow(Num(1001), Num(83742), "h2", Num(50), AddrA, AddrC,
         Num(21000), Num(20), {})
\* 0.10 tokens, and a gasPrice that is not a number
RowAToBBadGasPrice ==
  RawRow(Num(1002), Num(10), "h3", Num(70), AddrA, AddrB,
         Num(21000), NotANumber, {})
\* a value that is not a number
RowBadValue ==
  RawRow(Num(1003), NotANumber, "h4", Num(60), AddrC, AddrA,
         Num(21000), Num(20), {})
\* the router spelled in upper case without prefix, no gas fields, 123.45 tokens
RowUpperRouterToC ==
  RawRow(Num(1004), Num(12345), "h5", Num(50), RouterUpper, AddrC,
         NoneVal, NoneVal, {"gasUsed", "gasPrice"})
\* a sender that is not an address
RowInvalidFrom ==
  RawRow(Num(1005), Num(500), "h6", Num(40), AddrShort, AddrB,
         Num(21000), Num(20), {})

RawRows == { RowRouterToB, RowAToC, RowAToBBadGasPrice, RowBadValue,
             RowUpperRouterToC, RowInvalidFrom }

\* token_info.decimals
TokenDecimals == {0, 2}

\* config.min_token_amount: 0.0, 0.1 (stored above 1/10) and 500.0
Thresholds == { Float(0, 1, 0), Float(1, 1, 1), Float(5000, 1, 0) }

\* get_current_eth_price(): 0.0 when the field is missing, else a price
EthPrices == {0, 2000}

\* the lists of at most n rows; a transfer event occurs once in the history
SeqsUpTo(S, n) ==
  { q \in UNION { [1..m -> S] : m \in 0..n } :
      \A i, j \in 1..Len(q) : i # j => q[i] # q[j] }

(* ---------------------------------------------------------------------- *)
(* analyze_token_interactions (main.py) as a state machine                 *)
(* ---------------------------------------------------------------------- *)
VARIABLES
  raw_transactions,     \* what get_token_transfers returned
  decimals,             \* token_info.decimals
  config,               \* max_early_wallets, min_token_amount
  pc,                   \* "start", "parsed", "grouped", "loop", "done", "raised", "displayed"
  heap,                 \* the WalletTransaction objects
  transactions,         \* references of the parsed records
  wallet_transactions,  \* the grouping: entries [key, txs] in insertion order
  eth_price_usd,
  wallet_analyses,      \* the summaries kept so far
  wi,                   \* position of the loop in wallet_transactions
  analysis,             \* what analyze_wallet_transactions returned last
  report,               \* the TokenAnalysis returned
  raised,               \* the exception that left the function, and its origin
  called,               \* the stages analyze_token_interactions has called
  call,                 \* a direct call of one utility function: its arguments
  result                \* ... and what the call returned or raised

vars == << raw_transactions, decimals, config, pc, heap, transactions,
           wallet_transactions, eth_price_usd, wallet_analyses, wi, analysis,
           report, raised, called, call, result >>

\* no utility function is being called directly
NoCall == [fn |-> ""]
Pending == [exc |-> "pending", v |-> NoneVal]
NoDirectCall == call = NoCall /\ result = Pending

NotRaised == [exc |-> "", where |-> ""]

\* analyze_token_interactions is entered with the rows fetched
PipelineInit(rows, token_decimals) ==
  /\ raw_transactions \in SeqsUpTo(rows, MaxRows)
  /\ decimals \in token_decimals
  /\ config \in { Config(n, m) : n \in 0..MaxEarly, m \in Thresholds }
  /\ pc = "start"
  /\ heap = <<>>
  /\ transactions = <<>>
  /\ wallet_transactions = <<>>
  /\ eth_price_usd = 0
  /\ wallet_analyses = <<>>
  /\ wi = 1
  /\ analysis = NoneVal
  /\ report = NoneVal
  /\ raised = NotRaised
  /\ called = {}

Init == PipelineInit(RawRows, TokenDecimals) /\ NoDirectCall

\* the guard takes every list for non-empty
RowsAssumed(rows) == FALSE

\* main.py:105: not raw_transactions
NoRows(rows) == rows = <<>>

\* main.py:105-112: no rows, an empty report
EmptyReport ==
  /\ pc = "start"
  /\ NoRows(raw_transactions)
  /\ report' = TokenAnalysis(0, 0, <<>>)
  /\ pc' = "done"
  /\ UNCHANGED << raw_transactions, decimals, config, heap, transactions,
                  wallet_transactions, eth_price_usd, wallet_analyses, wi,
                  analysis, raised, called, call, result >>

\* main.py:116-117
Parse ==
  /\ pc = "start"
  /\ ~NoRows(raw_transactions)
  /\ called' = called \cup {"parse_etherscan_transactions"}
  /\ LET r == parse_etherscan_transactions(raw_transactions, decimals)
     IN  IF r.raised # ""
         THEN /\ pc' = "raised"
              /\ raised' = [exc |-> r.raised, where |-> "parse_etherscan_transactions"]
              /\ UNCHANGED << heap, transactions >>
         ELSE /\ pc' = "parsed"
              /\ heap' = r.out
              /\ transactions' = [i \in 1..Len(r.out) |-> i]
              /\ UNCHANGED raised
  /\ UNCHANGED << raw_transactions, decimals, config, wallet_transactions,
                  eth_price_usd, wallet_analyses, wi, analysis, report,
                  call, result >>

\* main.py:122
Group ==
  /\ pc = "parsed"
  /\ LET g == group_transactions_by_wallet(heap, transactions)
     IN  /\ heap' = g.heap
         /\ wallet_transactions' = g.dict
  /\ pc' = "grouped"
  /\ called' = called \cup {"group_transactions_by_wallet"}
  /\ UNCHANGED << raw_transactions, decimals, config, transactions,
                  eth_price_usd, wallet_analyses, wi, analysis, report, raised,
                  call, result >>

\* main.py:127
GetPrice ==
  /\ pc = "grouped"
  /\ eth_price_usd' \in EthPrices
  /\ pc' = "loop"
  /\ called' = called \cup {"get_current_eth_price"}
  /\ UNCHANGED << raw_transactions, decimals, config, heap, transactions,
                  wallet_transactions, wallet_analyses, wi, analysis, report, raised,
                  call, result >>

\* main.py:135: the loop stops at the end of the dict or at the break
LoopEnded ==
  \/ wi > Len(wallet_transactions)
  \/ Len(wallet_analyses) >= config.max_early_wallets

\* main.py:134-152: one iteration of the loop over the wallets
AnalyzeWallet ==
  /\ pc = "loop"
  /\ ~LoopEnded
  /\ LET entry == wallet_transactions[wi]
         r == analyze_wallet_transactions(heap, entry.key, entry.txs, config)
         first == heap[r.ret.first_transaction]
         cost == estimate_transaction_cost_usd(first.gas_used, first.gas_price,
                                               eth_price_usd)
     IN  /\ wallet_transactions' = [wallet_transactions EXCEPT ![wi].txs = r.txs]
         /\ analysis' = r.ret
         /\ IF r.ret # NoneVal
               /\ DecGeFloat(r.ret.total_received, config.min_token_amount)
            THEN IF Truthy(first.gas_used) /\ Truthy(first.gas_price)
                    /\ eth_price_usd > 0
                 THEN IF cost.exc # ""
                      THEN /\ pc' = "raised"
                           /\ raised' = [exc |-> cost.exc,
                                         where |-> "estimate_transaction_cost_usd"]
                           /\ UNCHANGED wallet_analyses
                      ELSE /\ wallet_analyses' =
                                Append(wallet_analyses,
                                       [r.ret EXCEPT !.estimated_usd_value = cost.v])
                           /\ UNCHANGED << pc, raised >>
                 ELSE /\ wallet_analyses' = Append(wallet_analyses, r.ret)
                      /\ UNCHANGED << pc, raised >>
            ELSE UNCHANGED << wallet_analyses, pc, raised >>
  /\ wi' = wi + 1
  /\ UNCHANGED << raw_transactions, decimals, config, heap, transactions,
                  eth_price_usd, report, called, call, result >>

\* leaves the summaries in the order of the loop
AnalysesUnsorted(h, analyses) == analyses

\* main.py:155: wallet_analyses.sort(key=first_transaction.block_number)
SortAnalyses(h, analyses) ==
  StableSort(analyses,
             [i \in 1..Len(analyses) |-> h[analyses[i].first_transaction].block_number])

\* s[:n] for n >= 0
Take(s, n) == SubSeq(s, 1, IF n < Len(s) THEN n ELSE Len(s))

\* main.py:154-164: sort, truncate, build the report
Rank ==
  /\ pc = "loop"
  /\ LoopEnded
  /\ LET sorted == SortAnalyses(heap, wallet_analyses)
     IN  /\ wallet_analyses' = sorted
         /\ report' = TokenAnalysis(Len(transactions), Len(wallet_transactions),
                                    Take(sorted, config.max_early_wallets))
  /\ pc' = "done"
  /\ UNCHANGED << raw_transactions, decimals, config, heap, transactions,
                  wallet_transactions, eth_price_usd, wi, analysis, raised,
                  called, call, result >>

Next == EmptyReport \/ Parse \/ Group \/ GetPrice \/ AnalyzeWallet \/ Rank

Spec == Init /\ [][Next]_vars

(* ---------------------------------------------------------------------- *)
(* The same pipeline on a second set of rows                               *)
(* ---------------------------------------------------------------------- *)
\* a transfer from an account to itself
RowSelfTransfer ==
  RawRow(Num(2000), Num(500), "s1", Num(30), AddrA, AddrA,
         Num(21000), Num(20), {})
\* a negative value
RowNegativeValue ==
  RawRow(Num(2001), Num(-5), "s2", Num(20), AddrB, AddrC,
         Num(21000), Num(20), {})
\* more fractional digits than are kept at 8 decimals: 0.00012345
RowCToA ==
  RawRow(Num(2002), Num(12345), "s3", Num(10), AddrC, AddrA,
         Num(21000), Num(20), {})
\* the hash field is missing
RowMissingHash ==
  RawRow(Num(2003), Num(700), "", Num(25), AddrA, AddrB,
         Num(21000), Num(20), {"hash"})
\* a timeStamp that is not a number
RowBadTimestamp ==
  RawRow(NotANumber, Num(700), "s5", Num(25), AddrA, AddrB,
         Num(21000), Num(20), {})
\* a likely contract as the recipient
RowAToRouter ==
  RawRow(Num(2005), Num(100000), "s6", Num(40), AddrA, Router,
         Num(21000), Num(20), {})

RawRows2 == { RowSelfTransfer, RowNegativeValue, RowCToA, RowMissingHash,
              RowBadTimestamp, RowAToRouter, RowInvalidFrom }

TokenDecimals2 == {2, 8}

Init2 == PipelineInit(RawRows2, TokenDecimals2) /\ NoDirectCall

Spec2 == Init2 /\ [][Next]_vars

(* ---------------------------------------------------------------------- *)
(* The same pipeline on rows to and from a likely contract                 *)
(* ---------------------------------------------------------------------- *)
\* 837 tokens at 2 decimals from the router
RowRouterToA ==
  RawRow(Num(3000), Num(83700), "c1", Num(10), Router, AddrA,
         Num(21000), Num(20), {})
\* nothing at all from the router
RowRouterToBZero ==
  RawRow(Num(3001), Num(0), "c2", Num(20), Router, AddrB,
         Num(21000), Num(20), {})
\* 837.40 tokens at 2 decimals to the router
RowBToRouter ==
  RawRow(Num(3002), Num(83740), "c3", Num(30), AddrB, Router,
         Num(21000), Num(20), {})
\* the router to itself
RowRouterToRouter ==
  RawRow(Num(3003), Num(5000), "c4", Num(40), RouterUpper, Router,
         Num(21000), Num(20), {})
\* 837.42 tokens at 2 decimals from the router
RowRouterToC ==
  RawRow(Num(3004), Num(83742), "c5", Num(50), Router, AddrC,
         Num(21000), Num(20), {})
\* 837.40 tokens at 2 decimals between two accounts
RowAToCRound ==
  RawRow(Num(3005), Num(83740), "c6", Num(60), AddrA, AddrC,
         Num(21000), Num(20), {})

RawRows3 == { RowRouterToA, RowRouterToBZero, RowBToRouter, RowRouterToRouter,
              RowRouterToC, RowAToCRound }

TokenDecimals3 == {0, 2, 3}

Init3 == PipelineInit(RawRows3, TokenDecimals3) /\ NoDirectCall

Spec3 == Init3 /\ [][Next]_vars

(* ---------------------------------------------------------------------- *)
(* Direct calls of the utility functions                                   *)
(* ---------------------------------------------------------------------- *)
\* the pipeline is not running
PipelineIdle ==
  /\ raw_transactions = <<>>
  /\ decimals = 0
  /\ config = Config(0, Float(0, 1, 0))
  /\ pc = "idle"
  /\ heap = <<>>
  /\ transactions = <<>>
  /\ wallet_transactions = <<>>
  /\ eth_price_usd = 0
  /\ wallet_analyses = <<>>
  /\ wi = 1
  /\ analysis = NoneVal
  /\ report = NoneVal
  /\ raised = NotRaised
  /\ called = {}

pipeline_vars == << raw_transactions, decimals, config, pc, heap, transactions,
                    wallet_transactions, eth_price_usd, wallet_analyses, wi,
                    analysis, report, raised, called >>

\* arguments of estimate_transaction_cost_usd
GasUsedArgs == { NoneVal, IntObj(-21000), IntObj(0), IntObj(21000) }
GasPriceArgs == { NoneVal, Num(0), Num(-20), Num(20), NumZ(2, 10), NotANumber }
EthPriceArgs == { -1, 0, 1, 2000 }

CostCalls ==
  { [fn |-> "estimate_transaction_cost_usd", gas_used |-> g, gas_price |-> p,
     eth_price_usd |-> e] : g \in GasUsedArgs, p \in GasPriceArgs, e \in EthPriceArgs }

InitCost == PipelineIdle /\ call \in CostCalls /\ result = Pending

\* estimate_transaction_cost_usd(gas_used, gas_price, eth_price_usd)
Estimate ==
  /\ call.fn = "estimate_transaction_cost_usd"
  /\ result = Pending
  /\ result' = estimate_transaction_cost_usd(call.gas_used, call.gas_price,
                                             call.eth_price_usd)
  /\ UNCHANGED << pipeline_vars, call >>

NextCost == Estimate

SpecCost == InitCost /\ [][NextCost]_vars

(* ---------------------------------------------------------------------- *)
(* Decimal arithmetic at the full width of the decimal context             *)
(* ---------------------------------------------------------------------- *)
\* significant digits kept by the default decimal context
prec == 28

Zeros(n) == [i \in 1..n |-> 0]
Nines(n) == [i \in 1..n |-> 9]
\* 1 followed by n zeros
OneZeros(n) == <<1>> \o Zeros(n)

\* a Decimal whose coefficient is written digit by digit, most significant
\* first: the value is d * 10^x
Wide(d, x) == [k |-> "dec", d |-> d, x |-> x]
WideZero == Wide(<<0>>, 0)

AllZero(d) == \A i \in 1..Len(d) : d[i] = 0

\* the coefficient without leading zeros
RECURSIVE Strip(_)
Strip(d) == IF Len(d) > 1 /\ Head(d) = 0 THEN Strip(Tail(d)) ELSE d

\* the coefficient plus one
RECURSIVE Increment(_)
Increment(d) ==
  IF d = <<>> THEN <<1>>
  ELSE IF d[Len(d)] < 9 THEN SubSeq(d, 1, Len(d) - 1) \o <<d[Len(d)] + 1>>
  ELSE Increment(SubSeq(d, 1, Len(d) - 1)) \o <<0>>

\* the context's rounding of an arithmetic result: ROUND_HALF_EVEN to prec
\* significant digits
RoundToPrec(w) ==
  IF Len(w.d) <= prec THEN w
  ELSE LET kept == SubSeq(w.d, 1, prec)
           rest == SubSeq(w.d, prec + 1, Len(w.d))
           up   == \/ rest[1] > 5
                   \/ rest[1] = 5 /\ (~AllZero(Tail(rest)) \/ kept[prec] % 2 = 1)
           r    == IF up THEN Increment(kept) ELSE kept
       IN  IF Len(r) > prec
           THEN Wide(SubSeq(r, 1, prec), w.x + Len(rest) + 1)
           ELSE Wide(r, w.x + Len(rest))

\* amount / 10^token_decimals
DivPow10(w, token_decimals) == RoundToPrec(Wide(w.d, w.x - token_decimals))

\* quantize(Decimal('0.000001'), rounding=ROUND_DOWN): cut or pad to 6
\* fractional digits; InvalidOperation when the coefficient would need more
\* than prec digits
QuantizeDown(w) ==
  LET shift == w.x + 6
      d == IF shift >= 0 THEN w.d \o Zeros(shift)
           ELSE IF -shift >= Len(w.d) THEN <<0>>
           ELSE SubSeq(w.d, 1, Len(w.d) + shift)
  IN  IF Len(Strip(d)) > prec
      THEN [exc |-> "InvalidOperation", v |-> WideZero]
      ELSE [exc |-> "", v |-> Wide(Strip(d), -6)]

format_caught == {"ValueError", "TypeError", "ZeroDivisionError"}

\* format_token_amount on an amount of any width, or on an object that is
\* not a Decimal: the value returned, or the exception that escapes
format_token_amount_prec(amount, token_decimals) ==
  IF token_decimals = 0 THEN [exc |-> "", v |-> amount]
  ELSE LET q == IF amount.k = "dec"
                THEN QuantizeDown(DivPow10(amount, token_decimals))
                ELSE [exc |-> "TypeError", v |-> WideZero]
       IN  IF q.exc \in format_caught THEN [exc |-> "", v |-> WideZero] ELSE q

(* ---------------------------------------------------------------------- *)
(* Direct calls of the conversion functions                                *)
(* ---------------------------------------------------------------------- *)
\* coefficients of 1, 9, 27, 28, 29, 30, 31 and 41 digits
AmountDigits ==
  { <<0>>, <<5>>, <<1, 5>>, <<1, 2, 3, 4, 5, 6, 7, 8, 9>>,
    Nines(27), Nines(28), Nines(29), Nines(30),
    OneZeros(21), OneZeros(22), OneZeros(23), OneZeros(30), OneZeros(40),
    SubSeq(Nines(27), 1, 26) \o <<8, 5>>, Nines(28) \o <<5>> }

AmountArgs == { Wide(d, 0) : d \in AmountDigits } \cup {NotANumber, NoneVal}
DecimalsArgs == {0, 1, 6, 8, 18}
WeiArgs == {NoneVal, NotANumber, Num(0), Num(1), Num(21000), NumZ(2, 10), NumZ(1, 18)}

FormatCalls ==
  { [fn |-> "format_token_amount", amount |-> a, decimals |-> d] :
      a \in AmountArgs, d \in DecimalsArgs }
WeiCalls == { [fn |-> "wei_to_ether", wei |-> w] : w \in WeiArgs }

InitConvert == PipelineIdle /\ call \in FormatCalls \cup WeiCalls /\ result = Pending

Format ==
  /\ call.fn = "format_token_amount"
  /\ result = Pending
  /\ result' = format_token_amount_prec(call.amount, call.decimals)
  /\ UNCHANGED << pipeline_vars, call >>

WeiToEther ==
  /\ call.fn = "wei_to_ether"
  /\ result = Pending
  /\ result' = wei_to_ether(call.wei)
  /\ UNCHANGED << pipeline_vars, call >>

NextConvert == Format \/ WeiToEther

SpecConvert == InitConvert /\ [][NextConvert]_vars

(* ---------------------------------------------------------------------- *)
(* Direct calls of normalize_address, on its own output too                *)
(* ---------------------------------------------------------------------- *)
MaxAddrLen == 3
AddrChars == {"0", "x", "X", "a", "A"}

RECURSIVE StringsUpTo(_)
StringsUpTo(n) ==
  IF n = 0 THEN { <<>> }
  ELSE LET shorter == StringsUpTo(n - 1)
       IN  shorter \cup { Append(t, ch) : t \in shorter, ch \in AddrChars }

AddressArgs == StringsUpTo(MaxAddrLen) \cup {AddrA, Router, RouterUpper, AddrShort}

AddressCalls ==
  { [fn |-> "normalize_address", address |-> a, again |-> FALSE, first |-> <<>>] :
      a \in AddressArgs }

InitAddress == PipelineIdle /\ call \in AddressCalls /\ result = Pending

Normalize ==
  /\ call.fn = "normalize_address"
  /\ result.exc = "pending"
  /\ result' = [exc |-> "", v |-> normalize_address(call.address)]
  /\ UNCHANGED << pipeline_vars, call >>

\* normalize_address applied to what the first call returned
NormalizeAgain ==
  /\ call.fn = "normalize_address"
  /\ result.exc # "pending"
  /\ ~call.again
  /\ call' = [call EXCEPT !.again = TRUE, !.first = result.v]
  /\ result' = [exc |-> "", v |-> normalize_address(result.v)]
  /\ UNCHANGED pipeline_vars

NextAddress == Normalize \/ NormalizeAgain

SpecAddress == InitAddress /\ [][NextAddress]_vars

(* ---------------------------------------------------------------------- *)
(* The track command around analyze_token_interactions (main.py)           *)
(* ---------------------------------------------------------------------- *)
\* track is entered with either setting of --include-airdrops
TrackCalls ==
  { [fn |-> "track", include_likely_airdrops |-> b] : b \in BOOLEAN }

InitTrack ==
  /\ PipelineInit(RawRows, TokenDecimals)
  /\ call \in TrackCalls
  /\ result = Pending

\* [wallet for wallet in earliest_wallets if not wallet.is_likely_airdrop]
WithoutAirdrops(wallets) ==
  LET Kept(wallet) == ~wallet.is_likely_airdrop
  IN  SelectSeq(wallets, Kept)

\* main.py:369-390: the airdrop filter, then display and export, which only
\* read the report
FilterAirdrops ==
  /\ call.fn = "track"
  /\ pc = "done"
  /\ report' = IF ~call.include_likely_airdrops
               THEN [report EXCEPT !.earliest_wallets = WithoutAirdrops(@)]
               ELSE report
  /\ pc' = "displayed"
  /\ UNCHANGED << raw_transactions, decimals, config, heap, transactions,
                  wallet_transactions, eth_price_usd, wallet_analyses, wi,
                  analysis, raised, called, call, result >>

NextTrack == Next \/ FilterAirdrops

SpecTrack == InitTrack /\ [][NextTrack]_vars

(* ---------------------------------------------------------------------- *)
(* is_round_number on parsed amounts, called directly or in the pipeline   *)
(* ---------------------------------------------------------------------- *)
\* raw values of up to 2100 tokens at one decimal
RawValues == 0..21000
RoundDecimals == {1, 2, 3}

\* the amounts the parser builds from them (utils.py:93-94)
ParsedAmounts ==
  { format_token_amount(DecimalOf(Num(v)).v, d) : v \in RawValues, d \in RoundDecimals }

RoundCalls == { [fn |-> "is_round_number", amount |-> a] : a \in ParsedAmounts }

InitRound == PipelineIdle /\ call \in RoundCalls /\ result = Pending

IsRound ==
  /\ call.fn = "is_round_number"
  /\ result.exc = "pending"
  /\ result' = [exc |-> "", v |-> is_round_number(call.amount)]
  /\ UNCHANGED << pipeline_vars, call >>

NextRound == Next \/ IsRound

SpecRound == (Init3 \/ InitRound) /\ [][NextRound]_vars

(* ---------------------------------------------------------------------- *)
(* Properties                                                              *)
(* ---------------------------------------------------------------------- *)
Returned == pc = "done" /\ raw_transactions # <<>>

FirstBlock(a) == heap[a.first_transaction].block_number

\* the summary without the cost filled in by the loop
Bare(a) == [a EXCEPT !.estimated_usd_value = NoneVal]

\* the summaries of ALL wallets that pass analysis, in the order of the dict
RECURSIVE QualifyingFrom(_)
QualifyingFrom(i) ==
  IF i > Len(wallet_transactions) THEN <<>>
  ELSE LET entry == wallet_transactions[i]
           r == analyze_wallet_transactions(heap, entry.key, entry.txs, config)
       IN  IF r.ret # NoneVal
              /\ DecGeFloat(r.ret.total_received, config.min_token_amount)
           THEN <<r.ret>> \o QualifyingFrom(i + 1)
           ELSE QualifyingFrom(i + 1)

AllQualifying == QualifyingFrom(1)

Ranked(analyses) ==
  StableSort(analyses, [i \in 1..Len(analyses) |-> FirstBlock(analyses[i])])

\* C1: the report lists the first max_early_wallets of all qualifying
\* wallets in ascending order of first block; no qualifying wallet that was
\* left out has a strictly lower first block than a listed one.
C1_EarliestOfAllWallets ==
  Returned =>
    /\ [i \in 1..Len(report.earliest_wallets) |-> Bare(report.earliest_wallets[i])]
         = Take(Ranked(AllQualifying), config.max_early_wallets)
    /\ \A i \in 1..Len(AllQualifying) :
         LET w == AllQualifying[i]
         IN  (\A j \in 1..Len(report.earliest_wallets) :
                report.earliest_wallets[j].wallet_address # w.wallet_address)
             => \A j \in 1..Len(report.earliest_wallets) :
                  FirstBlock(w) >= FirstBlock(report.earliest_wallets[j])

\* C2: earliest_wallets is in non-decreasing order of first block number and
\* holds at most max_early_wallets entries.
C2_SortedAndCapped ==
  pc = "done" =>
    /\ \A i, j \in 1..Len(report.earliest_wallets) :
         i < j => FirstBlock(report.earliest_wallets[i])
                    <= FirstBlock(report.earliest_wallets[j])
    /\ Len(report.earliest_wallets) <= config.max_early_wallets

\* a report of two wallets, blocks 50 then 100, whose wallets were met by the
\* loop in the opposite order
C2_Witness ==
  /\ pc = "done"
  /\ Len(report.earliest_wallets) = 2
  /\ FirstBlock(report.earliest_wallets[1]) = 50
  /\ FirstBlock(report.earliest_wallets[2]) = 100
  /\ \E i, j \in 1..Len(wallet_transactions) :
       /\ i < j
       /\ wallet_transactions[i].key = report.earliest_wallets[2].wallet_address
       /\ wallet_transactions[j].key = report.earliest_wallets[1].wallet_address

\* C3: the parser returns normally whatever a single row holds.
C3_ParserNeverAborts == raised.where # "parse_etherscan_transactions"

\* C4: the pipeline returns a report even when a wallet's first transaction
\* carries an unusable gasPrice: no exception leaves the loop over the
\* wallets (an exception leaving the parser is the subject of C3).
C4_WalletFailureContained == raised.where # "estimate_transaction_cost_usd"

\* the positions of the grouping output and the object each one holds
OutPositions ==
  UNION { { <<i, j>> : j \in 1..Len(wallet_transactions[i].txs) } :
            i \in 1..Len(wallet_transactions) }

RefAt(p) == wallet_transactions[p[1]].txs[p[2]]

TransactionFields ==
  { "wallet_address", "tx_hash", "block_number", "timestamp", "token_amount",
    "token_amount_raw", "direction", "from_address", "to_address",
    "gas_used", "gas_price" }

\* the heap after obj.field = <a value the field did not hold>
Changed == [k |-> "changed", n |-> 0]
SetField(h, ref, field) == [h EXCEPT ![ref][field] = Changed]

\* C5: grouping never aliases. Changing any field of a record emitted for
\* one wallet leaves every other emitted record and every parsed record as
\* it was; no two output entries, and no output entry and input record, are
\* the same object.
C5_GroupingNeverAliases ==
  /\ \A p, q \in OutPositions : p # q => RefAt(p) # RefAt(q)
  /\ \A p \in OutPositions : \A i \in 1..Len(transactions) : RefAt(p) # transactions[i]
  /\ \A p \in OutPositions : \A field \in TransactionFields :
       LET changed == SetField(heap, RefAt(p), field)
       IN  /\ \A q \in OutPositions \ {p} : changed[RefAt(q)] = heap[RefAt(q)]
           /\ \A i \in 1..Len(transactions) :
                changed[transactions[i]] = heap[transactions[i]]

\* one transfer was emitted for both of its wallets
C5_Witness ==
  /\ pc = "grouped"
  /\ \E p, q \in OutPositions :
       /\ p[1] # q[1]
       /\ heap[RefAt(p)].tx_hash = heap[RefAt(q)].tx_hash
       /\ heap[RefAt(p)].direction = "in"
       /\ heap[RefAt(q)].direction = "out"

\* what the claim expects record r to contribute under key w
ExpectedIn(r) == [r EXCEPT !.wallet_address = r.to_address, !.direction = "in"]
ExpectedOut(r) == [r EXCEPT !.wallet_address = r.from_address, !.direction = "out"]

ExpectedCount(w, v) ==
  Cardinality({ i \in 1..Len(transactions) :
                  LET r == heap[transactions[i]]
                  IN  w = r.to_address /\ v = ExpectedIn(r) })
  + Cardinality({ i \in 1..Len(transactions) :
                  LET r == heap[transactions[i]]
                  IN  /\ ~is_likely_contract(r.from_address)
                      /\ w = r.from_address /\ v = ExpectedOut(r) })

ActualCount(w, v) ==
  Cardinality({ p \in OutPositions :
                  wallet_transactions[p[1]].key = w /\ heap[RefAt(p)] = v })

GroupedPairs ==
  { <<wallet_transactions[p[1]].key, heap[RefAt(p)]>> : p \in OutPositions }
  \cup { <<heap[transactions[i]].to_address, ExpectedIn(heap[transactions[i]])>> :
           i \in 1..Len(transactions) }
  \cup { <<heap[transactions[i]].from_address, ExpectedOut(heap[transactions[i]])>> :
           i \in 1..Len(transactions) }

HasGrouped == pc \in {"grouped", "loop", "done"} \/ raised.where = "estimate_transaction_cost_usd"

\* C6: every parsed record r yields exactly one 'in' record under r.to_address
\* and exactly one 'out' record, with r's transaction fields, under
\* r.from_address iff the sender is not a likely contract; nothing else is
\* emitted, and each wallet key occurs once.
C6_GroupingEmitsInAndOut ==
  HasGrouped =>
    /\ \A pair \in GroupedPairs :
         ActualCount(pair[1], pair[2]) = ExpectedCount(pair[1], pair[2])
    /\ Cardinality(OutPositions)
         = Len(transactions)
           + Cardinality({ i \in 1..Len(transactions) :
                             ~is_likely_contract(heap[transactions[i]].from_address) })
    /\ \A i, j \in 1..Len(wallet_transactions) :
         i # j => wallet_transactions[i].key # wallet_transactions[j].key

\* two records grouped, one sent by a likely contract and one not
C6_Witness ==
  /\ pc = "grouped"
  /\ Len(transactions) = 2
  /\ Cardinality(OutPositions) = 3
  /\ \E i \in 1..2 : is_likely_contract(heap[transactions[i]].from_address)

\* the wallet the last call of analyze_wallet_transactions was about
Analyzed == wi > 1
AnalyzedEntry == wallet_transactions[wi - 1]
SoleRecord == heap[AnalyzedEntry.txs[1]]
Summaries ==
  { wallet_analyses[i] : i \in 1..Len(wallet_analyses) }
  \cup (IF Analyzed /\ analysis # NoneVal THEN {analysis} ELSE {})

\* C7: no wallet summary has is_likely_buyer and is_likely_airdrop both true.
C7_FlagsExclusive ==
  \A a \in Summaries : ~(a.is_likely_buyer /\ a.is_likely_airdrop)

\* a summary flagged airdrop whose wallet received tokens
C7_Witness ==
  /\ Analyzed /\ analysis # NoneVal
  /\ analysis.is_likely_airdrop
  /\ DecLt(DecZero, analysis.total_received)
  /\ ~analysis.is_likely_buyer

\* C8: is_likely_airdrop holds iff the wallet has exactly one record, it is
\* inbound, its sender is a likely contract and the total received is round;
\* a sole inbound transfer of exactly 1000 tokens from a listed DEX router
\* is an airdrop and not a purchase.
C8_AirdropRule ==
  (Analyzed /\ analysis # NoneVal) =>
    /\ analysis.is_likely_airdrop <=>
         /\ Len(AnalyzedEntry.txs) = 1
         /\ SoleRecord.direction = "in"
         /\ is_likely_contract(SoleRecord.from_address)
         /\ is_round_number(analysis.total_received)
    /\ ( /\ Len(AnalyzedEntry.txs) = 1
         /\ SoleRecord.direction = "in"
         /\ SoleRecord.from_address \in known_contracts
         /\ DecEq(SoleRecord.token_amount, Dec(1000, 0)) )
       => (analysis.is_likely_airdrop /\ ~analysis.is_likely_buyer)

\* the 1000-token transfer from the router was analysed
C8_Witness ==
  /\ Analyzed /\ analysis # NoneVal
  /\ Len(AnalyzedEntry.txs) = 1
  /\ SoleRecord.direction = "in"
  /\ SoleRecord.from_address = Router
  /\ SoleRecord.token_amount = Dec(1000000000, 6)
  /\ analysis.is_likely_airdrop

\* C9: is_likely_buyer holds iff the wallet is not an airdrop, received more
\* than zero, and the amount is not round or there are several records or
\* the sole record's sender is not a likely contract; a sole inbound transfer
\* of 837.42 tokens from an unlisted, unpatterned address is a purchase.
C9_BuyerRule ==
  (Analyzed /\ analysis # NoneVal) =>
    /\ analysis.is_likely_buyer <=>
         /\ ~analysis.is_likely_airdrop
         /\ DecLt(DecZero, analysis.total_received)
         /\ \/ ~is_round_number(analysis.total_received)
            \/ Len(AnalyzedEntry.txs) > 1
            \/ ~is_likely_contract(SoleRecord.from_address)
    /\ ( /\ Len(AnalyzedEntry.txs) = 1
         /\ SoleRecord.direction = "in"
         /\ ~is_likely_contract(SoleRecord.from_address)
         /\ DecEq(SoleRecord.token_amount, Dec(83742, 2)) )
       => (analysis.is_likely_buyer /\ ~analysis.is_likely_airdrop)

\* the 837.42-token transfer from an externally owned account was analysed
C9_Witness ==
  /\ Analyzed /\ analysis # NoneVal
  /\ Len(AnalyzedEntry.txs) = 1
  /\ SoleRecord.direction = "in"
  /\ SoleRecord.from_address = AddrA
  /\ SoleRecord.token_amount = Dec(837420000, 6)
  /\ analysis.is_likely_buyer
  /\ ~analysis.is_likely_airdrop

\* C10: a wallet whose total received is below config.min_token_amount is
\* absent from the report, and analyze_wallet_transactions returns None
\* for it.
C10_BelowThresholdAbsent ==
  /\ pc = "done" =>
       \A i \in 1..Len(report.earliest_wallets) :
         DecGeFloat(report.earliest_wallets[i].total_received, config.min_token_amount)
  /\ Analyzed =>
       ( ~DecGeFloat(SumAmounts(heap, AnalyzedEntry.txs, TRUE, 1),
                     config.min_token_amount)
         => analysis = NoneVal )

\* a direct call has returned or raised
Settled == call # NoCall /\ result # Pending

\* gas_used, gas_price or eth_price_usd is missing or not positive
CostInputUnusable ==
  \/ call.gas_used = NoneVal \/ call.gas_used.n <= 0
  \/ call.gas_price = NoneVal \/ call.gas_price.n <= 0
  \/ call.eth_price_usd <= 0

\* C11: estimate_transaction_cost_usd returns None whenever gas_used,
\* gas_price or eth_price_usd is missing or non-positive, and otherwise
\* gas_price / 10^18 * gas_used * eth_price_usd, which is positive
\* (0.84 for 21000, "20000000000", 2000).
C11_CostOnlyForPositiveInputs ==
  (Settled /\ call.fn = "estimate_transaction_cost_usd"
           /\ call.gas_price # NotANumber) =>
    /\ result.exc = ""
    /\ IF CostInputUnusable THEN result.v = NoneVal
       ELSE /\ result.v # NoneVal
            /\ DecLt(DecZero, result.v)
            /\ DecEq(result.v,
                     Dec(call.gas_price.n * call.gas_used.n * call.eth_price_usd,
                         18 - (IF call.gas_price.k = "numz" THEN call.gas_price.z ELSE 0)))
    /\ (call.gas_used = IntObj(21000) /\ call.gas_price = NumZ(2, 10)
        /\ call.eth_price_usd = 2000) => DecEq(result.v, Dec(84, 2))

\* C12: an empty transfer history gives a report with zero transactions,
\* zero wallets and no early wallets, without raising and without a call of
\* the parser, the grouper or the price source.
C12_EmptyHistoryEmptyReport ==
  (raw_transactions = <<>> /\ pc \notin {"start", "idle"}) =>
    /\ pc = "done"
    /\ report = TokenAnalysis(0, 0, <<>>)
    /\ called = {}
    /\ raised = NotRaised

\* the pipeline has returned for an empty history
C12_Witness ==
  /\ raw_transactions = <<>>
  /\ pc = "done"
  /\ report.total_transactions = 0 /\ report.unique_wallets = 0
  /\ report.earliest_wallets = <<>>

\* C13: no amount is negative: token_amount >= 0 in every parsed and every
\* grouped record, total_received >= 0 and total_sent >= 0 in every summary.
C13_AmountsNeverNegative ==
  /\ \A ref \in 1..Len(heap) : heap[ref].token_amount.c >= 0
  /\ \A a \in Summaries : a.total_received.c >= 0 /\ a.total_sent.c >= 0

\* C14: direction agrees with the wallet identifier in every record after
\* parsing and after grouping, and every record stored under key w is
\* attributed to w; also for a transfer from an address to itself.
C14_DirectionConsistent ==
  /\ \A ref \in 1..Len(heap) :
       /\ heap[ref].direction \in {"in", "out"}
       /\ heap[ref].direction = "in" => heap[ref].wallet_address = heap[ref].to_address
       /\ heap[ref].direction = "out" => heap[ref].wallet_address = heap[ref].from_address
  /\ \A p \in OutPositions :
       heap[RefAt(p)].wallet_address = wallet_transactions[p[1]].key

\* a self-transfer and an ordinary transfer were grouped: the sender of the
\* self-transfer holds both its 'in' and its 'out' record
C14_Witness ==
  /\ pc = "grouped"
  /\ \E p, q \in OutPositions :
       /\ p[1] = q[1]
       /\ heap[RefAt(p)].tx_hash = heap[RefAt(q)].tx_hash
       /\ heap[RefAt(p)].direction = "in" /\ heap[RefAt(q)].direction = "out"
       /\ heap[RefAt(p)].from_address = heap[RefAt(p)].to_address
  /\ \E p \in OutPositions :
       heap[RefAt(p)].from_address # heap[RefAt(p)].to_address

\* a row the parser is to accept: every required field present, both
\* addresses valid after normalization, every numeric field convertible
Accepted(tx) ==
  /\ required_fields \cap tx.absent = {}
  /\ is_valid_ethereum_address(normalize_address(tx.from))
  /\ is_valid_ethereum_address(normalize_address(tx.to))
  /\ tx.timeStamp.k = "num" /\ tx.value.k = "num" /\ tx.blockNumber.k = "num"
  /\ GetGasUsed(tx).k \in {"num", "none"}

RECURSIVE AcceptedRows(_)
AcceptedRows(rows) ==
  IF rows = <<>> THEN <<>>
  ELSE (IF Accepted(Head(rows)) THEN <<Head(rows)>> ELSE <<>>) \o AcceptedRows(Tail(rows))

\* C15: the parser's output holds, in input order, exactly one record per
\* accepted row and none for a rejected row; each record is attributed to
\* the normalized 'to' address, inbound, and keeps the raw value string.
C15_ParserOutput ==
  (raw_transactions # <<>> /\ pc \notin {"start", "idle"}) =>
    /\ raised.where # "parse_etherscan_transactions"
    /\ LET expected == AcceptedRows(raw_transactions)
       IN  /\ Len(transactions) = Len(expected)
           /\ \A i \in 1..Len(transactions) :
                LET r == heap[transactions[i]]
                IN  /\ r.wallet_address = normalize_address(expected[i].to)
                    /\ r.direction = "in"
                    /\ r.token_amount_raw = expected[i].value
                    /\ r.tx_hash = expected[i].hash

\* raw / 10^decimals cut after 6 fractional digits, in units of 10^-6
Truncated(d, token_decimals) ==
  Strip(IF token_decimals <= 6 THEN d \o Zeros(6 - token_decimals)
        ELSE IF token_decimals - 6 >= Len(d) THEN <<0>>
        ELSE SubSeq(d, 1, Len(d) - (token_decimals - 6)))

\* C16: for every non-negative integer raw and every decimals >= 0,
\* format_token_amount returns raw / 10^decimals truncated (never rounded
\* up) to 6 fractional digits, and raw itself when decimals = 0.
C16_FormatTruncates ==
  (Settled /\ call.fn = "format_token_amount" /\ call.amount.k = "dec") =>
    /\ result.exc = ""
    /\ call.decimals = 0 => result.v = call.amount
    /\ call.decimals > 0 =>
         result.v = Wide(Truncated(call.amount.d, call.decimals), -6)

\* the input of a conversion is not a number
NotNumeric(x) == x.k \in {"str", "none"}

\* the conversion of the call cannot be carried out: the input is not a
\* number, or the quotient has too many digits to be cut to 6 places
ConversionFails ==
  \/ call.fn = "wei_to_ether" /\ NotNumeric(call.wei)
  \/ call.fn = "format_token_amount" /\ NotNumeric(call.amount)
  \/ /\ call.fn = "format_token_amount" /\ call.amount.k = "dec"
     /\ call.decimals > 0
     /\ Len(Truncated(call.amount.d, call.decimals)) > prec

\* C17: format_token_amount and wei_to_ether never raise; when the
\* conversion fails they return zero.
C17_ConversionsNeverRaise ==
  (Settled /\ call.fn \in {"format_token_amount", "wei_to_ether"}) =>
    /\ result.exc = ""
    /\ ConversionFails => result.v \in {WideZero, DecZero}

\* C18: normalize_address is idempotent: applied to its own output it
\* returns that output; the empty string gives the empty string.
C18_NormalizeIdempotent ==
  (call.fn = "normalize_address" /\ result.exc # "pending") =>
    /\ call.again => result.v = call.first
    /\ call.address = <<>> => result.v = <<>>

\* an upper-case address without prefix was normalized twice
C18_Witness ==
  /\ call.fn = "normalize_address" /\ call.again
  /\ call.address = <<"X", "A">>
  /\ call.first = <<"0", "x", "x", "a">>
  /\ result.v = call.first

\* the records grouped under the wallet of a summary
RecordsOf(a) == wallet_transactions[DictIndex(wallet_transactions, a.wallet_address)].txs

\* the sum of the amounts of the first n records that have the direction
RECURSIVE Total(_, _, _)
Total(refs, direction, n) ==
  IF n = 0 THEN DecZero
  ELSE IF heap[refs[n]].direction = direction
       THEN DecAdd(Total(refs, direction, n - 1), heap[refs[n]].token_amount)
       ELSE Total(refs, direction, n - 1)

\* C19: in every summary total_received is the sum of the amounts of the
\* wallet's 'in' records, total_sent the sum of its 'out' records,
\* net_position their difference and transaction_count the number of records.
C19_TotalsAreSums ==
  \A a \in Summaries :
    LET refs == RecordsOf(a)
        received == Total(refs, "in", Len(refs))
        sent == Total(refs, "out", Len(refs))
    IN  /\ DecEq(a.total_received, received)
        /\ DecEq(a.total_sent, sent)
        /\ DecEq(a.net_position, DecSub(received, sent))
        /\ a.transaction_count = Len(refs)

\* a summary of a wallet that both received and sent, in three or more
\* records, with a net position that is not zero
C19_Witness ==
  \E a \in Summaries :
    /\ a.transaction_count >= 3
    /\ DecLt(DecZero, a.total_received) /\ DecLt(DecZero, a.total_sent)
    /\ ~DecEq(a.total_received, a.total_sent)
    /\ ~DecEq(a.net_position, DecZero)

\* C20: first_transaction is a record of the wallet with the minimum
\* block_number; among records of that block it is the one that arrived
\* first in the wallet's list (records are allocated in arrival order).
C20_FirstIsEarliest ==
  \A a \in Summaries :
    LET refs == RecordsOf(a)
        f == a.first_transaction
    IN  /\ \E i \in 1..Len(refs) : refs[i] = f
        /\ \A i \in 1..Len(refs) :
             \/ heap[f].block_number < heap[refs[i]].block_number
             \/ heap[f].block_number = heap[refs[i]].block_number /\ f <= refs[i]

\* a summary whose first record shares its block with another record of the
\* wallet and arrived after a record of a later block
C20_Witness ==
  \E a \in Summaries :
    LET refs == RecordsOf(a)
        f == a.first_transaction
    IN  /\ \E i \in 1..Len(refs) :
             refs[i] # f /\ heap[refs[i]].block_number = heap[f].block_number
        /\ \E i \in 1..Len(refs) :
             refs[i] < f /\ heap[refs[i]].block_number > heap[f].block_number

\* every reference held in the grouping output
GroupedRefs == { RefAt(p) : p \in OutPositions }

\* C21: no entity is shared-mutable across stages: a step of the analysis
\* loop leaves the grouping output as it was (each wallet's list in its
\* arrival order, each record with its field values), and the
\* first_transaction of a summary is not an object held in the grouping
\* output.
C21_StagesShareNothing ==
  [][ pc = "loop" =>
        /\ wallet_transactions' = wallet_transactions
        /\ \A ref \in GroupedRefs : heap'[ref] = heap[ref]
        /\ \A a \in Summaries' : a.first_transaction \notin GroupedRefs ]_vars

\* C22: the report is immutable once built: after analyze_token_interactions
\* has returned it, no later step of track changes any of its fields, for
\* either setting of include_likely_airdrops.
C22_ReportImmutable ==
  [][ pc = "done" => report' = report ]_vars

\* the rows come in non-decreasing order of block number, as the transfer
\* history source returns them, and every row parses
RowsAscending ==
  /\ \A i \in 1..Len(raw_transactions) : Accepted(raw_transactions[i])
  /\ \A i, j \in 1..Len(raw_transactions) :
       i < j => raw_transactions[i].blockNumber.n <= raw_transactions[j].blockNumber.n

\* C23: when the rows come in non-decreasing block order and all parse, the
\* early exit of the loop loses nothing: the report lists exactly the first
\* max_early_wallets of all qualifying wallets in ascending order of first
\* block.
C23_EarlyExitLosesNothing ==
  (Returned /\ RowsAscending) =>
    [i \in 1..Len(report.earliest_wallets) |-> Bare(report.earliest_wallets[i])]
      = Take(Ranked(AllQualifying), config.max_early_wallets)

\* the loop was left by the break with wallets still to come, and more
\* wallets qualify than the report may hold
C23_Witness ==
  /\ Returned /\ RowsAscending
  /\ wi <= Len(wallet_transactions)
  /\ config.max_early_wallets >= 1
  /\ Len(AllQualifying) > config.max_early_wallets
  /\ Len(report.earliest_wallets) = config.max_early_wallets

\* C24: in every summary exactly one of is_likely_airdrop and
\* is_likely_buyer is true when total_received > 0, and both are false when
\* total_received = 0.
C24_ClassifiedWhenReceiving ==
  \A a \in Summaries :
    /\ DecLt(DecZero, a.total_received) =>
         (a.is_likely_airdrop /\ ~a.is_likely_buyer) \/ (~a.is_likely_airdrop /\ a.is_likely_buyer)
    /\ DecEq(a.total_received, DecZero) =>
         ~a.is_likely_airdrop /\ ~a.is_likely_buyer

\* a buyer whose only record is a round amount from an account that is not
\* a contract, next to a wallet that only sent
C24_Witness ==
  /\ \E a \in Summaries :
       /\ a.transaction_count = 1 /\ a.is_likely_buyer /\ ~a.is_likely_airdrop
       /\ is_round_number(a.total_received)
       /\ ~is_likely_contract(heap[a.first_transaction].from_address)
  /\ \E a \in Summaries :
       /\ DecEq(a.total_received, DecZero) /\ DecLt(DecZero, a.total_sent)
       /\ ~a.is_likely_airdrop /\ ~a.is_likely_buyer

\* a parsed amount (6 fractional digits) that is positive and has at most
\* one fractional digit that is not zero
OneFractionalDigit(amount) ==
  amount.e = 6 /\ amount.c > 0 /\ amount.c % 100000 = 0

\* C25: with decimals > 0, is_round_number is true for every positive parsed
\* amount with at most one non-zero fractional digit, and a wallet whose
\* only record is an inbound transfer of such an amount from a likely
\* contract has is_likely_airdrop = true and is_likely_buyer = false.
C25_QuantizedAmountsAreRound ==
  /\ (call.fn = "is_round_number" /\ result.exc = "" /\ OneFractionalDigit(call.amount))
       => result.v = TRUE
  /\ \A a \in Summaries :
       LET tx == heap[a.first_transaction]
       IN  ( /\ decimals > 0
             /\ a.transaction_count = 1
             /\ tx.direction = "in"
             /\ is_likely_contract(tx.from_address)
             /\ OneFractionalDigit(tx.token_amount) )
           => a.is_likely_airdrop /\ ~a.is_likely_buyer

\* an airdrop summary for a single inbound transfer from the router of an
\* amount whose first fractional digit is not zero (83.700000)
C25_Witness ==
  \E a \in Summaries :
    LET tx == heap[a.first_transaction]
    IN  /\ decimals > 0
        /\ a.transaction_count = 1
        /\ tx.direction = "in"
        /\ is_likely_contract(tx.from_address)
        /\ OneFractionalDigit(tx.token_amount)
        /\ tx.token_amount.c % 1000000 # 0
        /\ a.is_likely_airdrop /\ ~a.is_likely_buyer

\* C26: the grouping output holds no 'out' record of a likely contract, so
\* every summary of a likely contract has total_sent = 0 and net_position =
\* total_received; a likely contract that receives a transfer is still a
\* key of the grouping and counted in unique_wallets.
C26_ContractOutboundSuppressed ==
  /\ \A ref \in GroupedRefs :
       heap[ref].direction = "out" => ~is_likely_contract(heap[ref].wallet_address)
  /\ \A a \in Summaries :
       is_likely_contract(a.wallet_address) =>
         DecEq(a.total_sent, DecZero) /\ DecEq(a.net_position, a.total_received)
  /\ HasGrouped =>
       \A i \in 1..Len(transactions) :
         heap[transactions[i]].to_address \in DictKeys(wallet_transactions)
  /\ Returned =>
       report.unique_wallets = Cardinality(DictKeys(wallet_transactions))

\* the router sent one transfer and received another: it is a wallet of the
\* report's count, with a summary that shows receipts only
C26_Witness ==
  /\ Returned
  /\ Router \in DictKeys(wallet_transactions)
  /\ report.unique_wallets = 3
  /\ \E i, j \in 1..Len(transactions) :
       /\ heap[transactions[i]].from_address = Router
       /\ heap[transactions[i]].to_address # Router
       /\ heap[transactions[j]].to_address = Router
       /\ heap[transactions[j]].from_address # Router
  /\ \E a \in Summaries :
       /\ a.wallet_address = Router
       /\ DecLt(DecZero, a.total_received)
       /\ DecEq(a.total_sent, DecZero)

====
